---- MODULE Spec2Model ----
(***************************************************************************)
(* Model of the breeding-graph consolidation (buildBreedingPairsJsonc,     *)
(* map-shaped children) and of the shortest-path builder                   *)
(* (buildShortestPathMutations).                                           *)
(*                                                                         *)
(* Conventions.                                                            *)
(*  - A species key is a string; NULL stands for a null/undefined          *)
(*    identifier.  KeyOrder lists the keys in ascending string order, so   *)
(*    Array.prototype.sort() and localeCompare (which agree on these       *)
(*    lower-case keys) are both modelled by KeyLeq.                        *)
(*  - A chance is an integer number of 1e-4 units: the override's 0.20 is  *)
(*    2000, and an extracted relation's chance 20 (percent) is normalised  *)
(*    by chance/100 to 2000.                                               *)
(*  - A key built with join("|") is modelled by the tuple of its parts.    *)
(*  - A requirement entry is a sequence of <<name, value>> pairs in the    *)
(*    object's key order, so equality of sequences is equality of          *)
(*    JSON.stringify and equality of the sets of pairs is structural       *)
(*    equality.                                                            *)
(*  - A children object is a function offspring -> child; the final        *)
(*    output orders its keys by sorting, so the order is not stored.       *)
(***************************************************************************)
EXTENDS Integers, Sequences, FiniteSets, TLC

\* buildBreedingPairsJsonc
VARIABLES manualMutations, mutationGroups, seenMutationKeys, skippedMutations,
          mutations, output, pc

\* buildShortestPathMutations
VARIABLES allBees, allMutations, mutationGraph, beeDepth, queue, shortest, spc

cvars == <<manualMutations, mutationGroups, seenMutationKeys, skippedMutations,
           mutations, output, pc>>

spvars == <<allBees, allMutations, mutationGraph, beeDepth, queue, shortest,
            spc>>

\* build / parseAllMods / buildOutput
VARIABLES modsConfig, manualFile, saveIntermediate, breedingThrows,
          intermediateData, parsedResults, written, exitCode, bpc

bvars == <<modsConfig, manualFile, saveIntermediate, breedingThrows,
           intermediateData, parsedResults, written, exitCode, bpc>>

\* extractCombs / buildCombsJsonc
VARIABLES mergedBees, mergedCombs, combsOutput, combpc

combvars == <<mergedBees, mergedCombs, combsOutput, combpc>>

\* parseMagicBeesSpecies / resolveSpeciesReference / normalizeParentUID
VARIABLES enumName, magicBees, resolved, gendustryRef, normalized

keyvars == <<enumName, magicBees, resolved, gendustryRef, normalized>>

vars == <<cvars, spvars, bvars, combvars, keyvars>>

----------------------------------------------------------------------------
(* Bounds and the input universe                                           *)

MaxMutations == 2

NULL == "null"

KeyOrder == <<"F:Z", "Hell", "Ocean", "a", "b", "bare", "c", "d", "f:u", "f:w", "f:x", "f:y", "f:z">>

Rank(k) == CHOOSE i \in 1..Len(KeyOrder) : KeyOrder[i] = k

KeyLeq(a, b) == Rank(a) <= Rank(b)

\* merged.bees: the keys of the merged entity registry
Bees == {"f:w", "f:x", "f:y", "f:z"}

\* the pair left in the order it came in
SortPair_Unsorted(p1, p2) == <<p1, p2>>

\* [p1, p2].sort()
SortPair(p1, p2) == IF KeyLeq(p1, p2) THEN <<p1, p2>> ELSE <<p2, p1>>

----------------------------------------------------------------------------
(* Data shapes                                                             *)

\* an offspring entry {chance} without a requirements property
Uncond(c) == [chance |-> c, hasReq |-> FALSE, requirements |-> <<>>]

\* an offspring entry {chance, requirements: rs}
WithReq(c, rs) == [chance |-> c, hasReq |-> TRUE, requirements |-> rs]

Group(p1, p2, ch) == [parents |-> <<p1, p2>>, children |-> ch]

HasField(req, name) == \E i \in 1..Len(req) : req[i][1] = name

Field(req, name) == req[CHOOSE i \in 1..Len(req) : req[i][1] = name][2]

\* structural equality of two requirement entries (key order ignored)
StructEq(r1, r2) ==
    {r1[i] : i \in 1..Len(r1)} = {r2[i] : i \in 1..Len(r2)}

ReqBiome == << <<"biome", <<"Hell">>>> >>

ReqBiomeChance(c) == << <<"biome", <<"Hell">>>>, <<"chance", c>> >>

\* the override sets the runs start from (manual/mutations.jsonc)
ManualOptions ==
    { <<>>,
      << Group("f:x", "f:y", "f:z" :> Uncond(2000)) >>,
      << Group("f:x", "f:y", "f:z" :> WithReq(2000, <<>>)) >>,
      << Group("f:y", "f:x", "f:z" :> WithReq(2000, <<ReqBiome>>)) >>,
      << Group("f:x", "f:y", "f:z" :> WithReq(2000, <<ReqBiomeChance(500)>>)) >>,
      << Group("f:x", "f:y", "f:z" :> WithReq(2000, <<ReqBiome>>)),
         Group("f:x", "f:w", "f:w" :> Uncond(500)) >>,
      << Group("f:x", "f:y", "f:z" :> WithReq(2000, <<ReqBiome>>)),
         Group("f:y", "f:x", "f:w" :> WithReq(500, <<>>)) >>,
      << Group("f:z", "f:y", "f:w" :> Uncond(500)) >>,
      << Group("f:x", "f:y", "f:z" :> WithReq(2001, <<>>)) >> }

NoConditions == <<>>

CondBiome == [biome |-> <<"Hell">>]

CondBiomeTime == [biome |-> <<"Hell">>, time |-> "night"]

Mutation(p1, p2, o, c, cond) ==
    [parent1 |-> p1, parent2 |-> p2, offspring |-> o, chance |-> c,
     conditions |-> cond]

\* extracted relations whose three identifiers are registry keys; the last
\* two differ only in the order of an array value
ResolvedMutations ==
    { Mutation(pp[1], pp[2], o, c, cond) :
        pp \in {<<"f:x", "f:y">>, <<"f:y", "f:x">>, <<"f:x", "f:w">>},
        o \in {"f:z", "f:w"},
        c \in {5, 20},
        cond \in {NoConditions, CondBiome, CondBiomeTime} }
    \cup { Mutation("f:x", "f:w", "f:w", 5, [biome |-> <<"Hell", "Ocean">>]),
           Mutation("f:x", "f:w", "f:w", 5, [biome |-> <<"Ocean", "Hell">>]) }

\* extracted relations with a null or unknown identifier
UnresolvedMutations ==
    { Mutation(NULL, "f:y", "f:z", 20, NoConditions),
      Mutation("f:x", NULL, "f:w", 20, NoConditions),
      Mutation("f:x", "f:y", NULL, 20, NoConditions),
      Mutation("f:u", "f:y", "f:z", 20, NoConditions),
      Mutation("f:x", "f:u", "f:w", 5, CondBiome),
      Mutation("f:x", "f:y", "f:u", 20, NoConditions),
      Mutation("f:x", "f:y", "F:Z", 20, NoConditions),
      Mutation("f:x", "f:y", "bare", 20, NoConditions) }

Mutations == ResolvedMutations \cup UnresolvedMutations

----------------------------------------------------------------------------
(* buildBreedingPairsJsonc: the override index                             *)

ParentKey(g) == SortPair(g.parents[1], g.parents[2])

\* requirement.chance || childData.chance
IndexedChance(req, child) ==
    IF HasField(req, "chance") /\ Field(req, "chance") # 0
    THEN Field(req, "chance") ELSE child.chance

\* manualMutationSet: one key per requirement entry of every override child
ManualMutationSet(manual) ==
    UNION { UNION { { <<ParentKey(manual[g]), sp,
                        IndexedChance(manual[g].children[sp].requirements[r],
                                      manual[g].children[sp])>> :
                      r \in 1..Len(manual[g].children[sp].requirements) } :
                    sp \in DOMAIN manual[g].children } :
            g \in 1..Len(manual) }

\* group.parents.sort() on every override Group (in place)
SortedManual(manual) ==
    [g \in 1..Len(manual) |->
        [parents |-> ParentKey(manual[g]), children |-> manual[g].children]]

\* mutationGroups after seeding: a later Group with the same key replaces an
\* earlier one
SeedGroups(manual) ==
    [k \in {ParentKey(manual[g]) : g \in 1..Len(manual)} |->
        LET last == CHOOSE g \in 1..Len(manual) :
                        /\ ParentKey(manual[g]) = k
                        /\ \A h \in (g+1)..Len(manual) : ParentKey(manual[h]) # k
        IN  manual[last].children]

----------------------------------------------------------------------------
(* buildBreedingPairsJsonc: one extracted relation                         *)

\* mutation.chance / 100, in 1e-4 units
NormalizedChance(m) == m.chance * 100

\* 0.0001 in 1e-4 units
ChanceTolerance == 1

Abs(x) == IF x < 0 THEN -x ELSE x

\* condition names whose values are arrays in the extractors' records
ArrayConditions == {"biome", "temperature", "humidity", "block", "moonPhase"}

RECURSIVE SortStrings(_)
\* value.slice().sort() for an array of strings
SortStrings(xs) ==
    IF Len(xs) <= 1 THEN xs
    ELSE LET lo == CHOOSE i \in 1..Len(xs) :
                       \A j \in 1..Len(xs) : KeyLeq(xs[i], xs[j])
         IN  <<xs[lo]>> \o SortStrings([j \in 1..(Len(xs) - 1) |->
                                           IF j < lo THEN xs[j] ELSE xs[j + 1]])

\* array values joined in the order they came in
serializeConditions_Unsorted(conditions) == conditions

\* serializeConditions: "" for no conditions, else the name=value parts in
\* sorted name order, an array value sorted before it is joined
serializeConditions(conditions) ==
    [k \in DOMAIN conditions |->
        IF k \in ArrayConditions
        THEN SortStrings(conditions[k]) ELSE conditions[k]]

\* the recognised condition vocabulary, in the order the fields are copied
Vocabulary ==
    <<"temperature", "humidity", "biome", "dateRange", "timeOfDay", "block",
      "moonPhase", "moonPhaseBonus", "thaumcraftVis", "requireExplosion",
      "requirePlayer", "dimension", "isSecret">>

\* the fields of mutationEntry copied from mutation.conditions
CopiedField(conditions, name) ==
    IF name = "block"
    THEN IF "block" \in DOMAIN conditions
         THEN << <<"block", conditions["block"]>> >>
         ELSE IF "requiredBlock" \in DOMAIN conditions
              THEN << <<"block", conditions["requiredBlock"]>> >>
              ELSE <<>>
    ELSE IF name \in DOMAIN conditions
         THEN IF name \in {"requireExplosion", "isSecret"}
              THEN << <<name, TRUE>> >>
              ELSE << <<name, conditions[name]>> >>
         ELSE <<>>

RECURSIVE CopiedFields(_, _)
CopiedFields(conditions, i) ==
    IF i > Len(Vocabulary) THEN <<>>
    ELSE CopiedField(conditions, Vocabulary[i]) \o CopiedFields(conditions, i + 1)

\* the chance override added whenever the two chances are not equal
MutationEntry_ExactCompare(m, defaultChance) ==
    CopiedFields(m.conditions, 1) \o
    (IF NormalizedChance(m) # defaultChance
     THEN << <<"chance", NormalizedChance(m)>> >> ELSE <<>>)

\* mutationEntry: the copied condition fields, then the chance override when
\* the normalised chance differs from the offspring's default chance
MutationEntry(m, defaultChance) ==
    CopiedFields(m.conditions, 1) \o
    (IF Abs(NormalizedChance(m) - defaultChance) > ChanceTolerance
     THEN << <<"chance", NormalizedChance(m)>> >> ELSE <<>>)

\* identifiers that contain ":" and their lower-cased, separator-free form
Normalized == ("F:Z" :> "f:z") @@ [k \in {"f:u", "f:w", "f:x", "f:y", "f:z"} |-> k]

\* tryResolve
TryResolve(identifier) ==
    IF identifier \in DOMAIN Normalized THEN Normalized[identifier] ELSE NULL

\* checkIfInManualMutations: does any indexed key name this offspring
CheckIfInManualMutations(m, manualMutationSet) ==
    /\ TryResolve(m.offspring) # NULL
    /\ \E key \in manualMutationSet : key[2] = TryResolve(m.offspring)

Skip(m, inManual) == [offspring |-> m.offspring, inManual |-> inManual]

IsNull(m) == m.parent1 = NULL \/ m.parent2 = NULL \/ m.offspring = NULL

IsMissing(m) ==
    m.parent1 \notin Bees \/ m.parent2 \notin Bees \/ m.offspring \notin Bees

MutationParentKey(m) == SortPair(m.parent1, m.parent2)

BaseKey(m) == <<MutationParentKey(m), m.offspring, NormalizedChance(m)>>

MutationKey(m) ==
    <<MutationParentKey(m), m.offspring, NormalizedChance(m),
      serializeConditions(m.conditions)>>

\* the override index is never consulted
IsManualDuplicate_Never(m, manual) == FALSE

\* manualMutationSet.has(baseKey)
IsManualDuplicate(m, manual) == BaseKey(m) \in ManualMutationSet(manual)

\* the offspring entry the relation is merged into (got or created)
ChildFor(groups, m) ==
    IF MutationParentKey(m) \in DOMAIN groups
       /\ m.offspring \in DOMAIN groups[MutationParentKey(m)]
    THEN groups[MutationParentKey(m)][m.offspring]
    ELSE WithReq(NormalizedChance(m), <<>>)

\* mutationGroups after the relation was merged
Merged(groups, m) ==
    LET k     == MutationParentKey(m)
        old   == IF k \in DOMAIN groups THEN groups[k] ELSE <<>>
        child == ChildFor(groups, m)
        entry == MutationEntry(m, child.chance)
        new   == IF Len(entry) > 0
                 THEN [child EXCEPT !.requirements = Append(@, entry)]
                 ELSE child
    IN  (k :> ((m.offspring :> new) @@ old)) @@ groups

\* requirements.push on an offspring entry that has no requirements property
PushThrows(groups, m) ==
    LET child == ChildFor(groups, m)
    IN  /\ Len(MutationEntry(m, child.chance)) > 0
        /\ ~child.hasReq

----------------------------------------------------------------------------
(* buildBreedingPairsJsonc: reconciliation and ordering                    *)

RECURSIVE MergeRequirements(_, _, _)
\* push every requirement of news[i..] that no existing entry equals under
\* JSON.stringify
MergeRequirements(existing, news, i) ==
    IF i > Len(news) THEN existing
    ELSE IF \E j \in 1..Len(existing) : existing[j] = news[i]
         THEN MergeRequirements(existing, news, i + 1)
         ELSE MergeRequirements(Append(existing, news[i]), news, i + 1)

\* offspring the override Group does not have yet are left out
MergeChildren_ExistingOnly(children, updated) ==
    [sp \in DOMAIN children |->
        IF sp \notin DOMAIN updated THEN children[sp]
        ELSE [children[sp] EXCEPT
                 !.requirements = MergeRequirements(@, updated[sp].requirements, 1),
                 !.hasReq = @ \/ Len(updated[sp].requirements) > 0]]

\* the children of the working Group put in place of the override Group's
MergeChildren_Replace(children, updated) == updated

\* the children of an override Group after the working Group was merged in
MergeChildren(children, updated) ==
    [sp \in (DOMAIN children) \cup (DOMAIN updated) |->
        IF sp \notin DOMAIN updated THEN children[sp]
        ELSE IF sp \notin DOMAIN children
             THEN IF updated[sp].hasReq /\ Len(updated[sp].requirements) = 0
                  THEN Uncond(updated[sp].chance)
                  ELSE updated[sp]
             ELSE LET merged == MergeRequirements(children[sp].requirements,
                                                  updated[sp].requirements, 1)
                  IN  [children[sp] EXCEPT
                          !.requirements = merged,
                          !.hasReq = @ \/ Len(merged) > 0]]

\* the last loop: delete an empty requirements array (keys come out sorted)
CleanChildren(children) ==
    [sp \in DOMAIN children |->
        IF children[sp].hasReq /\ Len(children[sp].requirements) = 0
        THEN Uncond(children[sp].chance) ELSE children[sp]]

\* the comparator of newGroups.sort
PairLeq(a, b) ==
    \/ Rank(a[1]) < Rank(b[1])
    \/ a[1] = b[1] /\ Rank(a[2]) <= Rank(b[2])

\* the parent keys in ascending order: position i holds the key that has
\* i - 1 keys before it
SortKeys(keys) ==
    [i \in 1..Cardinality(keys) |->
        CHOOSE k \in keys :
            Cardinality({j \in keys : j # k /\ PairLeq(j, k)}) = i - 1]

\* the new Groups put in front of the override Groups
FinalOutput_NewFirst(manual, groups) ==
    LET manualKeys == {ParentKey(manual[g]) : g \in 1..Len(manual)}
        newKeys    == SortKeys((DOMAIN groups) \ manualKeys)
        enriched   == [g \in 1..Len(manual) |->
                          [parents  |-> ParentKey(manual[g]),
                           children |-> CleanChildren(
                               MergeChildren(manual[g].children,
                                             groups[ParentKey(manual[g])]))]]
        added      == [i \in 1..Len(newKeys) |->
                          [parents  |-> newKeys[i],
                           children |-> CleanChildren(groups[newKeys[i]])]]
    IN  added \o enriched

\* output: the override Groups, enriched, then the new Groups, sorted
FinalOutput(manual, groups) ==
    LET manualKeys == {ParentKey(manual[g]) : g \in 1..Len(manual)}
        newKeys    == SortKeys((DOMAIN groups) \ manualKeys)
        enriched   == [g \in 1..Len(manual) |->
                          [parents  |-> ParentKey(manual[g]),
                           children |-> CleanChildren(
                               MergeChildren(manual[g].children,
                                             groups[ParentKey(manual[g])]))]]
        added      == [i \in 1..Len(newKeys) |->
                          [parents  |-> newKeys[i],
                           children |-> CleanChildren(groups[newKeys[i]])]]
    IN  enriched \o added

----------------------------------------------------------------------------
(* buildShortestPathMutations: input universe                              *)

MaxGroups == 3

\* an offspring entry of an input Group; children are kept in key order
SPChild(o, c) == [offspring |-> o, chance |-> c, hasReq |-> FALSE,
                  requirements |-> <<>>]

SPChildReq(o, c, rs) == [offspring |-> o, chance |-> c, hasReq |-> TRUE,
                         requirements |-> rs]

SPGroup(p1, p2, ch) == [parents |-> <<p1, p2>>, children |-> ch]

ReqNight == << <<"timeOfDay", "NIGHT">> >>

\* the Groups an input list is drawn from
GroupOptions ==
    { SPGroup("a", "b", << SPChild("c", 1500) >>),
      SPGroup("b", "a", << SPChildReq("c", 1500, <<ReqBiome>>) >>),
      SPGroup("a", "b", << SPChild("d", 1000) >>),
      SPGroup("a", "c", << SPChild("d", 1000) >>),
      SPGroup("b", "c", << SPChildReq("d", 1000,
                                      <<ReqBiomeChance(500), ReqNight>>) >>),
      SPGroup("c", "b", << SPChild("d", 800) >>),
      SPGroup("b", "b", << SPChild("d", 1200) >>),
      SPGroup("c", "d", << SPChild("c", 1000) >>),
      SPGroup("d", "d", << SPChild("c", 1000) >>),
      SPGroup("a", "d", << SPChildReq("c", 1000, <<>>) >>),
      SPGroup("a", "b", << SPChild("d", 1000),
                           SPChildReq("c", 1500, <<ReqNight>>) >>),
      SPGroup("a", "a", << SPChild("b", 1000) >>),
      SPGroup("c", "d", << SPChild("a", 1000) >>) }

\* the key orders of the entity registry (allBees) an input is drawn from
RegistryOptions ==
    { <<"a", "b", "c", "d">>, <<"b", "c", "d">>, <<"d", "c">> }

Entities == {"a", "b", "c", "d"}

RECURSIVE SeqsUpTo(_, _)
\* the sequences over S of length at most n
SeqsUpTo(S, n) ==
    IF n = 0 THEN {<<>>}
    ELSE LET shorter == SeqsUpTo(S, n - 1)
         IN  shorter \cup {Append(q, x) : q \in shorter, x \in S}

Range(q) == {q[i] : i \in 1..Len(q)}

----------------------------------------------------------------------------
(* buildShortestPathMutations: base bees and the mutation graph            *)

\* beesWithMutations
BeesWithMutations(all) ==
    UNION { {all[g].children[i].offspring : i \in 1..Len(all[g].children)} :
            g \in 1..Len(all) }

\* every registry entity taken as a base entity
BaseBees_All(bees, all) == bees

\* baseBees, in registry key order
BaseBees(bees, all) ==
    SelectSeq(bees, LAMBDA b : b \notin BeesWithMutations(all))

\* the candidates one offspring entry contributes
ChildCandidates(parents, child) ==
    IF child.hasReq /\ Len(child.requirements) > 0
    THEN [r \in 1..Len(child.requirements) |->
            [offspring     |-> child.offspring,
             parents       |-> parents,
             chance        |-> IF HasField(child.requirements[r], "chance")
                               THEN Field(child.requirements[r], "chance")
                               ELSE child.chance,
             requirements  |-> child.requirements[r],
             isConditional |-> TRUE]]
    ELSE << [offspring     |-> child.offspring,
             parents       |-> parents,
             chance        |-> child.chance,
             requirements  |-> <<>>,
             isConditional |-> FALSE] >>

RECURSIVE GroupCandidates(_, _)
GroupCandidates(group, i) ==
    IF i > Len(group.children) THEN <<>>
    ELSE ChildCandidates(group.parents, group.children[i])
         \o GroupCandidates(group, i + 1)

RECURSIVE AllCandidates(_, _)
\* every candidate in (Group order, offspring order, requirement order)
AllCandidates(all, g) ==
    IF g > Len(all) THEN <<>>
    ELSE GroupCandidates(all[g], 1) \o AllCandidates(all, g + 1)

RECURSIVE FirstOccurrences(_, _)
FirstOccurrences(q, seen) ==
    IF q = <<>> THEN <<>>
    ELSE IF Head(q) \in seen THEN FirstOccurrences(Tail(q), seen)
         ELSE <<Head(q)>> \o FirstOccurrences(Tail(q), seen \cup {Head(q)})

\* the keys of mutationGraph in insertion order
GraphKeys(all) ==
    LET cands == AllCandidates(all, 1)
    IN  FirstOccurrences([i \in 1..Len(cands) |-> cands[i].offspring], {})

\* mutationGraph: its keys in insertion order and the candidates of each key
MutationGraph(all) ==
    [keys  |-> GraphKeys(all),
     cands |-> [o \in BeesWithMutations(all) |->
                   SelectSeq(AllCandidates(all, 1), LAMBDA c : c.offspring = o)]]

----------------------------------------------------------------------------
(* buildShortestPathMutations: relaxation                                  *)

\* Math.min in place of Math.max
MaxParentDepth_Min(d1, d2) == IF d1 <= d2 THEN d1 ELSE d2

\* Math.max(depth1, depth2)
MaxParentDepth(d1, d2) == IF d1 >= d2 THEN d1 ELSE d2

\* depth1 !== undefined && depth2 !== undefined
BothReachable(c, depth) ==
    c.parents[1] \in DOMAIN depth /\ c.parents[2] \in DOMAIN depth

CandidateDepth(c, depth) ==
    MaxParentDepth(depth[c.parents[1]], depth[c.parents[2]]) + 1

\* the callback with its break after the first candidate, reachable or not
Visit_FirstCandidateOnly(graph, o, st) ==
    IF o \in DOMAIN st.depth \/ ~BothReachable(graph.cands[o][1], st.depth)
    THEN st
    ELSE [depth |-> (o :> CandidateDepth(graph.cands[o][1], st.depth))
                    @@ st.depth,
          queue |-> Append(st.queue, o)]

\* the callback without its beeDepth.has(offspring) checks
Visit_Reassign(graph, o, st) ==
    LET ok == {j \in 1..Len(graph.cands[o]) :
                  BothReachable(graph.cands[o][j], st.depth)}
    IN  IF ok = {}
        THEN st
        ELSE LET first == CHOOSE j \in ok : \A k \in ok : j <= k
             IN  [depth |-> (o :> CandidateDepth(graph.cands[o][first], st.depth))
                            @@ st.depth,
                  queue |-> Append(st.queue, o)]

\* the callback of mutationGraph.forEach for offspring o: st = [depth, queue]
Visit(graph, o, st) ==
    LET ok == {j \in 1..Len(graph.cands[o]) :
                  BothReachable(graph.cands[o][j], st.depth)}
    IN  IF o \in DOMAIN st.depth \/ ok = {}
        THEN st
        ELSE LET first == CHOOSE j \in ok : \A k \in ok : j <= k
             IN  [depth |-> (o :> CandidateDepth(graph.cands[o][first], st.depth))
                            @@ st.depth,
                  queue |-> Append(st.queue, o)]

RECURSIVE ScanGraph(_, _, _)
\* one mutationGraph.forEach: st is updated as the scan goes through the keys
ScanGraph(graph, i, st) ==
    IF i > Len(graph.keys) THEN st
    ELSE CHOOSE r \in {ScanGraph(graph, i + 1, nx) :
                          nx \in {Visit(graph, graph.keys[i], st)}} : TRUE

----------------------------------------------------------------------------
(* buildShortestPathMutations: second pass                                 *)

\* both parents required to sit exactly one level below the target
IsShortest_BothOneBelow(c, depth, targetDepth) ==
    /\ c.parents[1] \in DOMAIN depth /\ c.parents[2] \in DOMAIN depth
    /\ depth[c.parents[1]] + 1 = targetDepth
    /\ depth[c.parents[2]] + 1 = targetDepth

\* maxParentDepth + 1 === targetDepth, both parents having a depth
IsShortest(c, depth, targetDepth) ==
    /\ BothReachable(c, depth)
    /\ CandidateDepth(c, depth) = targetDepth

\* the entry written to group.children[offspring]
ChosenEntry(c) ==
    IF c.isConditional
    THEN WithReq(c.chance, <<c.requirements>>)
    ELSE Uncond(c.chance)

\* the last candidate at the target depth taken in place of the first
Chosen_Last(graph, o, depth) ==
    LET ok == IF o \in DOMAIN depth
              THEN {j \in 1..Len(graph.cands[o]) :
                       IsShortest(graph.cands[o][j], depth, depth[o])}
              ELSE {}
    IN  IF ok = {} THEN 0 ELSE CHOOSE j \in ok : \A k \in ok : j >= k

\* the candidate the second pass takes for offspring o: the first one at the
\* target depth, or none (0)
Chosen(graph, o, depth) ==
    LET ok == IF o \in DOMAIN depth
              THEN {j \in 1..Len(graph.cands[o]) :
                       IsShortest(graph.cands[o][j], depth, depth[o])}
              ELSE {}
    IN  IF ok = {} THEN 0 ELSE CHOOSE j \in ok : \A k \in ok : j <= k

ChosenKey(graph, o, depth) ==
    SortPair(graph.cands[o][Chosen(graph, o, depth)].parents[1],
             graph.cands[o][Chosen(graph, o, depth)].parents[2])

\* shortestMutations after the second mutationGraph.forEach
PickShortest(graph, depth) ==
    LET taken == {o \in Range(graph.keys) : Chosen(graph, o, depth) # 0}
    IN  [k \in {ChosenKey(graph, o, depth) : o \in taken} |->
            [o \in {t \in taken : ChosenKey(graph, t, depth) = k} |->
                ChosenEntry(graph.cands[o][Chosen(graph, o, depth)])]]

\* output.sort and the children clean-up
SortedGroups(picked) ==
    [i \in 1..Cardinality(DOMAIN picked) |->
        [parents  |-> SortKeys(DOMAIN picked)[i],
         children |-> CleanChildren(picked[SortKeys(DOMAIN picked)[i]])]]

\* the returned list: Groups sorted by parents, children by key
ShortestOutput(graph, depth) ==
    CHOOSE out \in {SortedGroups(picked) :
                       picked \in {PickShortest(graph, depth)}} : TRUE

----------------------------------------------------------------------------
(* The consolidation run                                                   *)

\* the comb registry is not being built
IdleCombs ==
    /\ mergedBees = <<>>
    /\ mergedCombs = <<>>
    /\ combsOutput = <<>>
    /\ combpc = "idle"

\* no species key is being computed
IdleKeys ==
    /\ enumName = <<>>
    /\ magicBees = <<>>
    /\ resolved = <<>>
    /\ gendustryRef = <<>>
    /\ normalized = <<>>

\* the build pipeline is not running
IdleBuild ==
    /\ modsConfig = <<>>
    /\ manualFile = "absent"
    /\ saveIntermediate = FALSE
    /\ breedingThrows = FALSE
    /\ intermediateData = <<>>
    /\ parsedResults = <<>>
    /\ written = <<>>
    /\ exitCode = -1
    /\ bpc = "idle"

\* the shortest-path builder is not running
IdleShortestPath ==
    /\ allBees = <<>>
    /\ allMutations = <<>>
    /\ mutationGraph = <<>>
    /\ beeDepth = <<>>
    /\ queue = <<>>
    /\ shortest = <<>>
    /\ spc = "idle"

Init ==
    /\ manualMutations \in ManualOptions
    /\ mutationGroups = <<>>
    /\ seenMutationKeys = {}
    /\ skippedMutations = <<>>
    /\ mutations = <<>>
    /\ output = <<>>
    /\ pc = "index"
    /\ IdleShortestPath
    /\ IdleBuild
    /\ IdleCombs
    /\ IdleKeys

\* lines 231-248: index and seed the override Groups
IndexManualMutations ==
    /\ pc = "index"
    /\ manualMutations' = SortedManual(manualMutations)
    /\ mutationGroups' = SeedGroups(manualMutations)
    /\ pc' = "loop"
    /\ UNCHANGED <<seenMutationKeys, skippedMutations, mutations, output>>
    /\ UNCHANGED <<spvars, bvars, combvars, keyvars>>

\* lines 268-430: the callback of merged.mutations.forEach for relation m
ProcessMutation(m) ==
    /\ pc = "loop"
    /\ Len(mutations) < MaxMutations
    /\ mutations' = Append(mutations, m)
    /\ UNCHANGED <<manualMutations, output>>
    /\ UNCHANGED <<spvars, bvars, combvars, keyvars>>
    /\ IF IsNull(m)
       THEN /\ skippedMutations' = Append(skippedMutations, Skip(m, FALSE))
            /\ UNCHANGED <<mutationGroups, seenMutationKeys, pc>>
       ELSE IF IsMissing(m)
       THEN /\ skippedMutations' =
                  Append(skippedMutations,
                         Skip(m, CheckIfInManualMutations(
                                     m, ManualMutationSet(manualMutations))))
            /\ UNCHANGED <<mutationGroups, seenMutationKeys, pc>>
       ELSE IF IsManualDuplicate(m, manualMutations)
       THEN /\ skippedMutations' = Append(skippedMutations, Skip(m, TRUE))
            /\ UNCHANGED <<mutationGroups, seenMutationKeys, pc>>
       ELSE IF MutationKey(m) \in seenMutationKeys
       THEN UNCHANGED <<mutationGroups, seenMutationKeys, skippedMutations, pc>>
       ELSE /\ seenMutationKeys' = seenMutationKeys \cup {MutationKey(m)}
            /\ UNCHANGED skippedMutations
            /\ IF PushThrows(mutationGroups, m)
               THEN /\ pc' = "threw"
                    /\ UNCHANGED mutationGroups
               ELSE /\ mutationGroups' = Merged(mutationGroups, m)
                    /\ UNCHANGED pc

\* lines 268-430 as a function of the loop's state st = [groups, seen, skipped,
\* threw]: the callback for relation m, for a call taken in one step
ProcessOne(manual, st, m) ==
    IF st.threw THEN st
    ELSE IF IsNull(m)
    THEN [st EXCEPT !.skipped = Append(@, Skip(m, FALSE))]
    ELSE IF IsMissing(m)
    THEN [st EXCEPT !.skipped =
             Append(@, Skip(m, CheckIfInManualMutations(
                                   m, ManualMutationSet(manual))))]
    ELSE IF IsManualDuplicate(m, manual)
    THEN [st EXCEPT !.skipped = Append(@, Skip(m, TRUE))]
    ELSE IF MutationKey(m) \in st.seen
    THEN st
    ELSE IF PushThrows(st.groups, m)
    THEN [st EXCEPT !.seen = @ \cup {MutationKey(m)}, !.threw = TRUE]
    ELSE [st EXCEPT !.seen = @ \cup {MutationKey(m)},
                    !.groups = Merged(st.groups, m)]

RECURSIVE ProcessAll(_, _, _, _)
\* merged.mutations.forEach from relation i on
ProcessAll(manual, muts, i, st) ==
    IF i > Len(muts) THEN st
    ELSE CHOOSE r \in {ProcessAll(manual, muts, i + 1, nx) :
                          nx \in {ProcessOne(manual, st, muts[i])}} : TRUE

\* lines 432-510: reconcile the override Groups, append the new Groups.  The
\* elements of output are the caller's override Group objects (line 224 copies
\* the array, not the Groups), so the merge and the clean-up change them.
BuildOutput ==
    /\ pc = "loop"
    /\ output' = FinalOutput(manualMutations, mutationGroups)
    /\ manualMutations' = SubSeq(output', 1, Len(manualMutations))
    /\ pc' = "done"
    /\ UNCHANGED <<mutationGroups, seenMutationKeys, skippedMutations, mutations>>
    /\ UNCHANGED <<spvars, bvars, combvars, keyvars>>

\* lines 222-511: a second call with the same registry, the same relations
\* and the override Groups as the first call left them
RunAgain ==
    /\ pc = "done"
    /\ \E st \in {ProcessAll(SortedManual(manualMutations), mutations, 1,
                              [groups  |-> SeedGroups(manualMutations),
                               seen    |-> {},
                               skipped |-> <<>>,
                               threw   |-> FALSE])} :
          /\ mutationGroups' = st.groups
          /\ seenMutationKeys' = st.seen
          /\ skippedMutations' = st.skipped
          /\ IF st.threw
             THEN /\ pc' = "threw"
                  /\ UNCHANGED <<manualMutations, output>>
             ELSE /\ output' = FinalOutput(SortedManual(manualMutations),
                                           st.groups)
                  /\ manualMutations' = SubSeq(output', 1, Len(manualMutations))
                  /\ pc' = "again"
    /\ UNCHANGED mutations
    /\ UNCHANGED <<spvars, bvars, combvars, keyvars>>

Next ==
    \/ IndexManualMutations
    \/ \E m \in Mutations : ProcessMutation(m)
    \/ BuildOutput
    \/ RunAgain

Spec == Init /\ [][Next]_vars

----------------------------------------------------------------------------
(* The shortest-path run                                                   *)

\* consolidation is not running
IdleConsolidation ==
    /\ manualMutations = <<>>
    /\ mutationGroups = <<>>
    /\ seenMutationKeys = {}
    /\ skippedMutations = <<>>
    /\ mutations = <<>>
    /\ output = <<>>
    /\ pc = "idle"

\* lines 17-81: the state when the relaxation loop is entered
InitSP ==
    /\ allBees \in RegistryOptions
    /\ allMutations \in SeqsUpTo(GroupOptions, MaxGroups)
    /\ mutationGraph = MutationGraph(allMutations)
    /\ beeDepth = [b \in Range(BaseBees(allBees, allMutations)) |-> 0]
    /\ queue = BaseBees(allBees, allMutations)
    /\ shortest = <<>>
    /\ spc = "bfs"
    /\ IdleConsolidation
    /\ IdleBuild
    /\ IdleCombs
    /\ IdleKeys

\* lines 83-110: one iteration of the while loop
Relax ==
    /\ spc = "bfs"
    /\ queue # <<>>
    /\ \E st \in {ScanGraph(mutationGraph, 1,
                              [depth |-> beeDepth, queue |-> Tail(queue)])} :
          /\ beeDepth' = st.depth
          /\ queue' = st.queue
    /\ UNCHANGED <<allBees, allMutations, mutationGraph, shortest, spc>>
    /\ UNCHANGED <<cvars, bvars, combvars, keyvars>>

\* lines 112-185: the loop has ended; build, sort and return the output
BuildShortest ==
    /\ spc = "bfs"
    /\ queue = <<>>
    /\ shortest' = ShortestOutput(mutationGraph, beeDepth)
    /\ spc' = "done"
    /\ UNCHANGED <<allBees, allMutations, mutationGraph, beeDepth, queue>>
    /\ UNCHANGED <<cvars, bvars, combvars, keyvars>>

NextSP == Relax \/ BuildShortest

SpecSP == InitSP /\ [][NextSP]_vars

\* the loop is sequential code: it keeps running until it returns
FairSpecSP == SpecSP /\ WF_vars(NextSP)

----------------------------------------------------------------------------
(* The build pipeline: build, parseAllMods, buildOutput                    *)

MaxSources == 3

\* what happens to one configured source: its file is missing, its extractor
\* throws, its extractor returns, or its extractor returns records on which
\* the statistics code that follows intermediateData.push throws
SourceOutcomes == {"missing", "throws", "ok", "okThenThrows"}

\* the four files of the output directory, in the order they are written
OutputFiles ==
    <<"bees.jsonc", "mutations.jsonc", "combs.jsonc", "shortest_mutations.jsonc">>

\* the override text is taken whatever it holds
ParseThrows_Never(file) == FALSE

\* JSON.parse of the comment-stripped override text throws
ParseThrows(file) == file = "invalid"

\* config.parser returned, so intermediateData.push(data) was reached
Pushed(outcome) == outcome \in {"ok", "okThenThrows"}

\* the loop ends at the first source that fails
IntermediateData_UntilFailure(configs) ==
    LET n == IF \E i \in 1..Len(configs) : ~Pushed(configs[i])
             THEN (CHOOSE i \in 1..Len(configs) :
                      /\ ~Pushed(configs[i])
                      /\ \A j \in 1..(i - 1) : Pushed(configs[j])) - 1
             ELSE Len(configs)
    IN  [i \in 1..n |-> i]

\* intermediateData after the second pass: the sources whose extractor
\* returned, by their position in the configuration
IntermediateData(configs) ==
    SelectSeq([i \in 1..Len(configs) |-> i], LAMBDA i : Pushed(configs[i]))

\* parsedResults after the second pass: one entry per configured source
ParsedResults(configs) ==
    [i \in 1..Len(configs) |-> [config |-> i, error |-> configs[i] # "ok"]]

\* the run when build is entered; exitCode is -1 while the process runs.
\* buildBreedingPairsJsonc can throw only over an override entry without a
\* requirements list, so only when the override file is there and parses
InitBuild ==
    /\ modsConfig \in SeqsUpTo(SourceOutcomes, MaxSources)
    /\ manualFile \in {"absent", "valid", "invalid"}
    /\ saveIntermediate \in BOOLEAN
    /\ breedingThrows \in (IF manualFile = "valid" THEN BOOLEAN ELSE {FALSE})
    /\ intermediateData = <<>>
    /\ parsedResults = <<>>
    /\ written = <<>>
    /\ exitCode = -1
    /\ bpc = "parse"
    /\ IdleConsolidation
    /\ IdleShortestPath
    /\ IdleCombs
    /\ IdleKeys

\* the catch of build: process.exit(1)
Fail ==
    /\ exitCode' = 1
    /\ bpc' = "exited"

\* parseAllMods: load the override file, then the two passes over the sources
ParseAllMods ==
    /\ bpc = "parse"
    /\ IF manualFile # "absent" /\ ParseThrows(manualFile)
       THEN /\ Fail
            /\ UNCHANGED <<intermediateData, parsedResults>>
       ELSE /\ intermediateData' = IntermediateData(modsConfig)
            /\ parsedResults' = ParsedResults(modsConfig)
            /\ bpc' = "check"
            /\ UNCHANGED exitCode
    /\ UNCHANGED <<modsConfig, manualFile, saveIntermediate, breedingThrows,
                   written>>
    /\ UNCHANGED <<cvars, spvars, combvars, keyvars>>

\* build: if (intermediateData.length === 0) process.exit(1)
CheckParsed ==
    /\ bpc = "check"
    /\ IF Len(intermediateData) = 0
       THEN Fail
       ELSE /\ bpc' = IF saveIntermediate THEN "save" ELSE "merge"
            /\ UNCHANGED exitCode
    /\ UNCHANGED <<modsConfig, manualFile, saveIntermediate, breedingThrows,
                   intermediateData, parsedResults, written>>
    /\ UNCHANGED <<cvars, spvars, combvars, keyvars>>

\* build: one intermediate file per parsed source
SaveIntermediate ==
    /\ bpc = "save"
    /\ written' = written \o [i \in 1..Len(intermediateData) |-> "intermediate.json"]
    /\ bpc' = "merge"
    /\ UNCHANGED <<modsConfig, manualFile, saveIntermediate, breedingThrows,
                   intermediateData, parsedResults, exitCode>>
    /\ UNCHANGED <<cvars, spvars, combvars, keyvars>>

\* buildOutput: merge the records, load the override file, extract the combs
MergeData ==
    /\ bpc = "merge"
    /\ IF manualFile # "absent" /\ ParseThrows(manualFile)
       THEN Fail
       ELSE /\ bpc' = "bees"
            /\ UNCHANGED exitCode
    /\ UNCHANGED <<modsConfig, manualFile, saveIntermediate, breedingThrows,
                   intermediateData, parsedResults, written>>
    /\ UNCHANGED <<cvars, spvars, combvars, keyvars>>

\* buildOutput: buildBeesJsonc and its writeJsonc
WriteBees ==
    /\ bpc = "bees"
    /\ written' = Append(written, OutputFiles[1])
    /\ bpc' = "mutations"
    /\ UNCHANGED <<modsConfig, manualFile, saveIntermediate, breedingThrows,
                   intermediateData, parsedResults, exitCode>>
    /\ UNCHANGED <<cvars, spvars, combvars, keyvars>>

\* buildOutput: buildBreedingPairsJsonc, which may throw, and its writeJsonc
WriteMutations ==
    /\ bpc = "mutations"
    /\ IF breedingThrows
       THEN /\ Fail
            /\ UNCHANGED written
       ELSE /\ written' = Append(written, OutputFiles[2])
            /\ bpc' = "combs"
            /\ UNCHANGED exitCode
    /\ UNCHANGED <<modsConfig, manualFile, saveIntermediate, breedingThrows,
                   intermediateData, parsedResults>>
    /\ UNCHANGED <<cvars, spvars, combvars, keyvars>>

\* buildOutput: buildCombsJsonc and its writeJsonc
WriteCombs ==
    /\ bpc = "combs"
    /\ written' = Append(written, OutputFiles[3])
    /\ bpc' = "shortest"
    /\ UNCHANGED <<modsConfig, manualFile, saveIntermediate, breedingThrows,
                   intermediateData, parsedResults, exitCode>>
    /\ UNCHANGED <<cvars, spvars, combvars, keyvars>>

\* build: read mutations.jsonc back, buildShortestPathMutations, write
WriteShortest ==
    /\ bpc = "shortest"
    /\ written' = Append(written, OutputFiles[4])
    /\ bpc' = "summary"
    /\ UNCHANGED <<modsConfig, manualFile, saveIntermediate, breedingThrows,
                   intermediateData, parsedResults, exitCode>>
    /\ UNCHANGED <<cvars, spvars, combvars, keyvars>>

\* build returns after the summary: the process ends with exit code 0
Finish ==
    /\ bpc = "summary"
    /\ exitCode' = 0
    /\ bpc' = "exited"
    /\ UNCHANGED <<modsConfig, manualFile, saveIntermediate, breedingThrows,
                   intermediateData, parsedResults, written>>
    /\ UNCHANGED <<cvars, spvars, combvars, keyvars>>

NextBuild ==
    \/ ParseAllMods
    \/ CheckParsed
    \/ SaveIntermediate
    \/ MergeData
    \/ WriteBees
    \/ WriteMutations
    \/ WriteCombs
    \/ WriteShortest
    \/ Finish

SpecBuild == InitBuild /\ [][NextBuild]_vars

\* the pipeline is sequential code: it keeps running until the process ends
FairSpecBuild == SpecBuild /\ WF_vars(NextBuild)

----------------------------------------------------------------------------
(* Text: a string the code takes apart is a sequence of characters         *)

Lowers == <<"a", "c", "f", "s">>

Uppers == <<"A", "C", "F", "S">>

IsUpper(ch) == \E i \in 1..Len(Uppers) : Uppers[i] = ch

IsLower(ch) == \E i \in 1..Len(Lowers) : Lowers[i] = ch

\* one character of toLowerCase / toUpperCase
LowerChar(ch) ==
    IF IsUpper(ch) THEN Lowers[CHOOSE i \in 1..Len(Uppers) : Uppers[i] = ch] ELSE ch

UpperChar(ch) ==
    IF IsLower(ch) THEN Uppers[CHOOSE i \in 1..Len(Lowers) : Lowers[i] = ch] ELSE ch

ToLowerCase(text) == [i \in 1..Len(text) |-> LowerChar(text[i])]

\* String.prototype.includes, the text lower-cased first
Includes_IgnoreCase(text, marker) ==
    \E i \in 1..(Len(text) - Len(marker) + 1) :
        SubSeq(ToLowerCase(text), i, i + Len(marker) - 1) = marker

\* String.prototype.includes
Includes(text, marker) ==
    \E i \in 1..(Len(text) - Len(marker) + 1) :
        SubSeq(text, i, i + Len(marker) - 1) = marker

\* text.split(sep).pop(): the part after the last separator
LastPart(text, sep) ==
    IF \E i \in 1..Len(text) : text[i] = sep
    THEN SubSeq(text, (CHOOSE i \in 1..Len(text) :
                          /\ text[i] = sep
                          /\ \A j \in (i + 1)..Len(text) : text[j] # sep) + 1,
                Len(text))
    ELSE text

\* text.replace(/x/g, y) for single characters
ReplaceChar(text, from, to) ==
    [i \in 1..Len(text) |-> IF text[i] = from THEN to ELSE text[i]]

----------------------------------------------------------------------------
(* extractCombs and buildCombsJsonc                                        *)

MaxProducts == 2

\* the marker of product.item.includes("comb")
CombMarker == <<"c", "o", "m", "b">>

ItemComb == <<"c", "o", "m", "b">>

ItemModComb == <<"f", ".", "c", "o", "m", "b", "_", "a">>

ItemCom == <<"f", ".", "c", "o", "m">>

ItemCapital == <<"C", "o", "m", "b">>

Product(item, chance) == [item |-> item, chance |-> chance]

\* the products a bee's list is drawn from
ProductOptions ==
    { Product(ItemComb, 10), Product(ItemComb, 30), Product(ItemModComb, 10),
      Product(ItemCom, 10), Product(ItemCapital, 10) }

Bee(uid, products) == [uid |-> uid, products |-> products]

\* merged.bees in key insertion order; an empty products list stands for a
\* missing one as well (both are skipped)
BeeRegistries ==
    LET lists == SeqsUpTo(ProductOptions, MaxProducts)
    IN  {<<>>}
        \cup { <<Bee(k, ps)>> : k \in {"f:x", "f:y"}, ps \in lists }
        \cup { <<Bee(kk[1], ps), Bee(kk[2], qs)>> :
                 kk \in {<<"f:x", "f:y">>, <<"f:y", "f:x">>},
                 ps \in lists, qs \in lists }

RECURSIVE Producers(_, _, _)
\* the producers pushed for combId by bees[b..], in (bee, product) order
Producers(bees, b, combId) ==
    IF b > Len(bees) THEN <<>>
    ELSE LET mine == SelectSeq(bees[b].products, LAMBDA p : p.item = combId)
         IN  [i \in 1..Len(mine) |-> [bee |-> bees[b].uid, chance |-> mine[i].chance]]
             \o Producers(bees, b + 1, combId)

\* formatCombName
FormatCombName(combId) ==
    LET name == LastPart(combId, ".")
    IN  IF name = <<>> THEN <<>>
        ELSE <<UpperChar(name[1])>> \o ReplaceChar(Tail(name), "_", " ")

\* every product.item of the registry
ProductItems(bees) ==
    UNION { {bees[b].products[p].item : p \in 1..Len(bees[b].products)} :
            b \in 1..Len(bees) }

\* merged.combs after extractCombs
ExtractCombs(bees) ==
    [id \in {item \in ProductItems(bees) : Includes(item, CombMarker)} |->
        [id |-> id, name |-> FormatCombName(id),
         producers |-> Producers(bees, 1, id)]]

\* comb.producers.sort by bee key; Array.prototype.sort is stable
SortProducers(ps) ==
    LET place(i) == Cardinality({j \in 1..Len(ps) :
                        \/ Rank(ps[j].bee) < Rank(ps[i].bee)
                        \/ ps[j].bee = ps[i].bee /\ j < i}) + 1
    IN  [n \in 1..Len(ps) |-> ps[CHOOSE i \in 1..Len(ps) : place(i) = n]]

\* buildCombsJsonc; the keys of the output object are written in sorted order
BuildCombsJsonc(combs) ==
    [id \in DOMAIN combs |->
        [name |-> combs[id].name, producers |-> SortProducers(combs[id].producers)]]

InitCombs ==
    /\ mergedBees \in BeeRegistries
    /\ mergedCombs = <<>>
    /\ combsOutput = <<>>
    /\ combpc = "extract"
    /\ IdleConsolidation
    /\ IdleShortestPath
    /\ IdleBuild
    /\ IdleKeys

\* buildOutput: extractCombs(merged)
ExtractCombsStep ==
    /\ combpc = "extract"
    /\ mergedCombs' = ExtractCombs(mergedBees)
    /\ combpc' = "build"
    /\ UNCHANGED <<mergedBees, combsOutput>>
    /\ UNCHANGED <<cvars, spvars, bvars, keyvars>>

\* buildOutput: combsOutput = buildCombsJsonc(merged); the sort is in place
BuildCombsStep ==
    /\ combpc = "build"
    /\ combsOutput' = BuildCombsJsonc(mergedCombs)
    /\ mergedCombs' = [id \in DOMAIN mergedCombs |->
                          [mergedCombs[id] EXCEPT
                              !.producers = SortProducers(@)]]
    /\ combpc' = "done"
    /\ UNCHANGED mergedBees
    /\ UNCHANGED <<cvars, spvars, bvars, keyvars>>

NextCombs == ExtractCombsStep \/ BuildCombsStep

SpecCombs == InitCombs /\ [][NextCombs]_vars

----------------------------------------------------------------------------
(* Species keys: parseMagicBeesSpecies, resolveSpeciesReference,           *)
(* normalizeParentUID                                                      *)

MaxNameLen == 5

\* enum names: upper-case segments joined by single underscores
EnumNames ==
    { n \in SeqsUpTo({"A", "S", "_"}, MaxNameLen) :
        /\ n # <<>>
        /\ n[1] # "_"
        /\ n[Len(n)] # "_"
        /\ \A i \in 1..(Len(n) - 1) : ~(n[i] = "_" /\ n[i + 1] = "_") }

\* text.replace(/x/g, "") for a single character
RemoveChar(text, ch) == SelectSeq(text, LAMBDA c : c # ch)

RECURSIVE Split(_, _)
\* text.split(sep) for a single character
Split(text, sep) ==
    IF \E i \in 1..Len(text) : text[i] = sep
    THEN LET first == CHOOSE i \in 1..Len(text) :
                         text[i] = sep /\ \A j \in 1..(i - 1) : text[j] # sep
         IN  <<SubSeq(text, 1, first - 1)>>
             \o Split(SubSeq(text, first + 1, Len(text)), sep)
    ELSE <<text>>

RECURSIVE Join(_, _)
\* parts.join(sep)
Join(parts, sep) ==
    IF Len(parts) = 0 THEN <<>>
    ELSE IF Len(parts) = 1 THEN parts[1]
    ELSE parts[1] \o <<sep>> \o Join(Tail(parts), sep)

StartsWith(text, prefix) ==
    Len(text) >= Len(prefix) /\ SubSeq(text, 1, Len(prefix)) = prefix

MagicBeesPrefix == <<"m", "a", "g", "i", "c", "b", "e", "e", "s", ":">>

\* the enum name lower-cased, its underscores kept
MagicBeesUid_KeepUnderscores(name) == MagicBeesPrefix \o ToLowerCase(name)

\* parseMagicBeesSpecies: `magicbees:${enumName.toLowerCase().replace(/_/g, "")}`
MagicBeesUid(name) == MagicBeesPrefix \o RemoveChar(ToLowerCase(name), "_")

\* resolveSpeciesReference for a reference without lower-case letters (the two
\* helper-call patterns of lines 1714-1727 need the texts getForestrySpecies
\* and ExtraBeeDefinition. and cannot match it): the uid of the parsed bee of
\* that enum name, else the bare ALL_CAPS rule, else the reference itself
ResolveSpeciesReference(ref, bees) ==
    IF \E i \in 1..Len(bees) : bees[i].enumName = ref
    THEN bees[CHOOSE i \in 1..Len(bees) :
                 /\ bees[i].enumName = ref
                 /\ \A j \in 1..(i - 1) : bees[j].enumName # ref].uid
    ELSE IF ref # <<>> /\ \A i \in 1..Len(ref) : IsUpper(ref[i]) \/ ref[i] = "_"
         THEN MagicBeesPrefix \o RemoveChar(ToLowerCase(ref), "_")
         ELSE ref

\* modMap: Gendustry mod prefix -> mod name
ModMap ==
    { <<<<"f", "o", "r", "e", "s", "t", "r", "y">>, <<"f", "o", "r", "e", "s", "t", "r", "y">>>>,
      <<<<"e", "x", "t", "r", "a", "b", "e", "e", "s">>, <<"e", "x", "t", "r", "a", "b", "e", "e", "s">>>>,
      <<<<"m", "a", "g", "i", "c", "b", "e", "e", "s">>, <<"m", "a", "g", "i", "c", "b", "e", "e", "s">>>>,
      <<<<"c", "a", "r", "e", "e", "r", "b", "e", "e", "s">>, <<"c", "a", "r", "e", "e", "r", "b", "e", "e", "s">>>>,
      <<<<"g", "e", "n", "d", "u", "s", "t", "r", "y">>, <<"m", "e", "a", "t", "b", "a", "l", "l", "c", "r", "a", "f", "t">>>> }

\* part.length === 2 && /^[A-Z]{2}$/ ? part : Title-case
DisplayPart(part) ==
    IF Len(part) = 2 /\ IsUpper(part[1]) /\ IsUpper(part[2]) THEN part
    ELSE IF part = <<>> THEN <<>>
    ELSE <<UpperChar(part[1])>> \o ToLowerCase(Tail(part))

\* speciesName.replace(/^([A-Z]{2})([A-Z][a-z])/, "$1_$2")
SplitAcronym(name) ==
    IF /\ Len(name) >= 4
       /\ IsUpper(name[1]) /\ IsUpper(name[2]) /\ IsUpper(name[3])
       /\ IsLower(name[4])
    THEN SubSeq(name, 1, 2) \o <<"_">> \o SubSeq(name, 3, Len(name))
    ELSE name

\* the species name taken from the parts of a Gendustry reference
SpeciesName(parts) ==
    IF ToLowerCase(parts[2]) = <<"b", "e", "e">> /\ Len(parts) = 3
    THEN parts[3]
    ELSE IF StartsWith(ToLowerCase(parts[2]), <<"s", "p", "e", "c", "i", "e", "s">>)
         THEN IF Len(parts) = 2 THEN SubSeq(parts[2], 8, Len(parts[2]))
              ELSE IF Len(parts) = 3 THEN parts[3]
              ELSE <<>>
         ELSE parts[2]

\* normalizeParentUID
NormalizeParentUID(uid) ==
    LET parts     == Split(uid, ".")
        modPrefix == ToLowerCase(parts[1])
    IN  IF Len(parts) < 2 THEN uid
        ELSE IF ~\E e \in ModMap : e[1] = modPrefix THEN uid
        ELSE LET modName == (CHOOSE e \in ModMap : e[1] = modPrefix)[2]
                 name    == SpeciesName(parts)
             IN  IF name = <<>> THEN modName \o <<":">>
                 ELSE IF modPrefix = <<"g", "e", "n", "d", "u", "s", "t", "r", "y">>
                         /\ name = ToLowerCase(name)
                 THEN <<"g", "e", "n", "d", "u", "s", "t", "r", "y", ":">> \o name
                 ELSE LET split   == IF modName = <<"m", "a", "g", "i", "c", "b", "e", "e", "s">>
                                     THEN SplitAcronym(name) ELSE name
                          words   == Split(split, "_")
                          display == Join([i \in 1..Len(words) |->
                                              DisplayPart(words[i])], " ")
                      IN  modName \o <<":">>
                          \o RemoveChar(ToLowerCase(display), " ")

RECURSIVE Concat(_)
\* the parts one after the other
Concat(parts) ==
    IF Len(parts) = 0 THEN <<>> ELSE parts[1] \o Concat(Tail(parts))

\* a segment in title case
TitleCase(part) ==
    IF part = <<>> THEN <<>> ELSE <<part[1]>> \o ToLowerCase(Tail(part))

\* the Gendustry-style references to the species of an enum name:
\* "magicbees.species" and the segments in CamelCase, a 2-letter acronym kept
\* in capitals either as the first segment only or wherever it stands
GendustryRefs(name) ==
    LET segs == Split(name, "_")
    IN  { <<"m", "a", "g", "i", "c", "b", "e", "e", "s", ".", "s", "p", "e", "c", "i", "e", "s">>
            \o Concat([i \in 1..Len(segs) |->
                          IF Len(segs[i]) = 2 /\ (i = 1 \/ anywhere)
                          THEN segs[i] ELSE TitleCase(segs[i])]) :
          anywhere \in BOOLEAN }

InitKeys ==
    /\ enumName \in EnumNames
    /\ magicBees = <<>>
    /\ resolved = <<>>
    /\ gendustryRef = <<>>
    /\ normalized = <<>>
    /\ IdleConsolidation
    /\ IdleShortestPath
    /\ IdleBuild
    /\ IdleCombs

\* parseMagicBeesSpecies: the enum constant becomes an entity
ParseSpecies ==
    /\ enumName # <<>>
    /\ magicBees = <<>>
    /\ magicBees' = << [uid |-> MagicBeesUid(enumName), enumName |-> enumName] >>
    /\ UNCHANGED <<enumName, resolved, gendustryRef, normalized>>
    /\ UNCHANGED <<cvars, spvars, bvars, combvars>>

\* a relation of the MagicBees source names the species by its enum name,
\* before (forward reference) or after the entity was parsed
ResolveReference ==
    /\ enumName # <<>>
    /\ resolved = <<>>
    /\ resolved' = ResolveSpeciesReference(enumName, magicBees)
    /\ UNCHANGED <<enumName, magicBees, gendustryRef, normalized>>
    /\ UNCHANGED <<cvars, spvars, bvars, combvars>>

\* a relation of a Gendustry config names the species
NormalizeReference ==
    /\ enumName # <<>>
    /\ normalized = <<>>
    /\ \E ref \in GendustryRefs(enumName) :
          /\ gendustryRef' = ref
          /\ normalized' = NormalizeParentUID(ref)
    /\ UNCHANGED <<enumName, magicBees, resolved>>
    /\ UNCHANGED <<cvars, spvars, bvars, combvars>>

NextKeys == ParseSpecies \/ ResolveReference \/ NormalizeReference

SpecKeys == InitKeys /\ [][NextKeys]_vars

----------------------------------------------------------------------------
(* Vocabulary of the properties                                            *)

\* the step is the callback for relation m
Processes(m) == pc = "loop" /\ mutations' = Append(mutations, m)

Resolved(m) == ~IsNull(m) /\ ~IsMissing(m)

\* (sorted parent pair, offspring, chance) of every override offspring entry
OverrideEntries(manual) ==
    UNION { { <<ParentKey(manual[g]), sp, manual[g].children[sp].chance>> :
                sp \in DOMAIN manual[g].children } : g \in 1..Len(manual) }

\* the offspring keys of the override Groups
OverrideOffspring(manual) ==
    UNION { DOMAIN manual[g].children : g \in 1..Len(manual) }

UnorderedPair(g) == {g.parents[1], g.parents[2]}

ManualDistinct(manual) ==
    \A g, h \in 1..Len(manual) :
        g # h => UnorderedPair(manual[g]) # UnorderedPair(manual[h])

\* C1: a resolved relation whose (sorted parents, offspring, chance/100) is
\* that of an override offspring entry, conditional or not, is skipped with a
\* diagnostic inManual = true and leaves the working Groups as they were.
C1_OverridePrecedence ==
    [][\A m \in Mutations :
          (/\ Processes(m)
           /\ Resolved(m)
           /\ BaseKey(m) \in OverrideEntries(manualMutations))
          => /\ skippedMutations' = Append(skippedMutations, Skip(m, TRUE))
             /\ mutationGroups' = mutationGroups
             /\ pc' = "loop"]_vars

\* C2: with an override set of pairwise distinct unordered parent pairs, the
\* final list never holds two Groups with the same unordered parent pair, and
\* every merged relation, whichever way round its parents came, has its
\* offspring in the one Group of its pair.
C2_ParentPairSymmetry ==
    (pc = "done" /\ ManualDistinct(manualMutations))
    => /\ \A i, j \in 1..Len(output) :
             i # j => UnorderedPair(output[i]) # UnorderedPair(output[j])
       /\ \A k \in 1..Len(mutations) :
             (Resolved(mutations[k])
              /\ BaseKey(mutations[k]) \notin ManualMutationSet(manualMutations))
             => \E i \in 1..Len(output) :
                   /\ UnorderedPair(output[i]) =
                         {mutations[k].parent1, mutations[k].parent2}
                   /\ mutations[k].offspring \in DOMAIN output[i].children

\* a finished run that merged (A,B) and then (B,A)
C2_Witness ==
    /\ pc = "done"
    /\ ManualDistinct(manualMutations)
    /\ Len(mutations) = 2
    /\ Resolved(mutations[1]) /\ Resolved(mutations[2])
    /\ mutations[1].parent1 # mutations[1].parent2
    /\ mutations[2].parent1 = mutations[1].parent2
    /\ mutations[2].parent2 = mutations[1].parent1
    /\ BaseKey(mutations[1]) \notin ManualMutationSet(manualMutations)
    /\ BaseKey(mutations[2]) \notin ManualMutationSet(manualMutations)
    /\ mutations[1].offspring # mutations[2].offspring
    /\ \E i \in 1..Len(output) :
          {mutations[1].offspring, mutations[2].offspring}
              \subseteq DOMAIN output[i].children

NoDuplicateRequirements(reqs) ==
    \A i, j \in 1..Len(reqs) : i # j => ~StructEq(reqs[i], reqs[j])

\* C3: in the final list no offspring entry has two structurally equal
\* requirement entries.
C3_NoDuplicateRequirements ==
    pc = "done"
    => \A i \in 1..Len(output) : \A sp \in DOMAIN output[i].children :
          NoDuplicateRequirements(output[i].children[sp].requirements)

\* C8: an unresolved relation never aborts the run, leaves the working Groups
\* alone and adds one diagnostic whose inManual says whether its offspring key
\* is an offspring of an override Group.
C8_UnresolvedDiagnostic ==
    [][\A m \in Mutations :
          (Processes(m) /\ ~Resolved(m))
          => /\ pc' = "loop"
             /\ mutationGroups' = mutationGroups
             /\ skippedMutations' =
                   Append(skippedMutations,
                          Skip(m, m.offspring \in
                                     OverrideOffspring(manualMutations)))]_vars

\* the override of the scenario: {X,Y} -> Z at 0.20, unconditional, written
\* without or with an empty requirements list
C9_Scenario ==
    /\ pc # "index"
    /\ manualMutations \in
          { << Group("f:x", "f:y", "f:z" :> Uncond(2000)) >>,
            << Group("f:x", "f:y", "f:z" :> WithReq(2000, <<>>)) >> }
    /\ mutations = << Mutation("f:x", "f:y", "f:z", 5, CondBiome) >>

\* C9: in the scenario the run completes and the final list is the single
\* override Group whose Z entry has chance 0.20 and the one requirement
\* {biome: ["Hell"], chance: 0.05}.
C9_OverrideSupersede ==
    C9_Scenario
    => /\ pc # "threw"
       /\ pc = "done"
          => output = << Group("f:x", "f:y",
                               "f:z" :> WithReq(2000, <<ReqBiomeChance(500)>>)) >>

\* C10 as stated: a relation whose offspring is an override offspring adds
\* nothing to the working Groups, whatever its parents and chance.
C10_SupersededDropped ==
    [][\A m \in Mutations :
          (Processes(m) /\ m.offspring \in OverrideOffspring(manualMutations))
          => mutationGroups' = mutationGroups]_vars

\* C10 amended: such a relation adds nothing when it is unresolved or when its
\* (sorted parents, offspring, chance/100) key is in the override index.
C10_SupersededDroppedAmended ==
    [][\A m \in Mutations :
          (/\ Processes(m)
           /\ m.offspring \in OverrideOffspring(manualMutations)
           /\ \/ ~Resolved(m)
              \/ BaseKey(m) \in ManualMutationSet(manualMutations))
          => /\ mutationGroups' = mutationGroups
             /\ pc' = "loop"]_vars

\* a resolved relation with an override's offspring and an indexed key, and an
\* unresolved one with an override's offspring, were both processed
C10_Witness ==
    /\ Len(mutations) = 2
    /\ Resolved(mutations[1])
    /\ mutations[1].offspring \in OverrideOffspring(manualMutations)
    /\ BaseKey(mutations[1]) \in ManualMutationSet(manualMutations)
    /\ mutations[1].conditions # NoConditions
    /\ ~Resolved(mutations[2])
    /\ mutations[2].offspring \in OverrideOffspring(manualMutations)
    /\ Len(skippedMutations) = 2

----------------------------------------------------------------------------
(* Properties of the shortest-path builder                                 *)

\* the registry entities that are never an offspring in the input
InputBase == Range(allBees) \ BeesWithMutations(allMutations)

InputCandidates(o) ==
    Range(SelectSeq(AllCandidates(allMutations, 1), LAMBDA c : c.offspring = o))

\* the Groups of the returned list that have o as an offspring key
ListedIn(o) == {i \in 1..Len(shortest) : o \in DOMAIN shortest[i].children}

RECURSIVE Closure(_)
\* the least set holding S and every offspring one of whose candidates has
\* both parents in the set
Closure(S) ==
    LET new == {o \in BeesWithMutations(allMutations) :
                   \E c \in InputCandidates(o) :
                       c.parents[1] \in S /\ c.parents[2] \in S}
    IN  IF new \subseteq S THEN S ELSE Closure(S \cup new)

Derivable == Closure(InputBase)

\* C4: every assigned depth is minimal: 0 for a base entity, and otherwise no
\* candidate with both parents assigned gives max(d1, d2) + 1 below it.
C4_DepthMinimal ==
    spc = "done"
    => \A e \in DOMAIN beeDepth :
          IF e \in InputBase THEN beeDepth[e] = 0
          ELSE \A c \in InputCandidates(e) :
                 (c.parents[1] \in DOMAIN beeDepth /\ c.parents[2] \in DOMAIN beeDepth)
                 => /\ beeDepth[c.parents[1]] + 1 >= beeDepth[e]
                    \/ beeDepth[c.parents[2]] + 1 >= beeDepth[e]

\* C5 as stated: both parents of every listed offspring's relation have depth
\* exactly one less than the offspring.
C5_ParentsExactlyOneBelow ==
    spc = "done"
    => \A i \in 1..Len(shortest) : \A o \in DOMAIN shortest[i].children :
          /\ shortest[i].parents[1] \in DOMAIN beeDepth
          /\ shortest[i].parents[2] \in DOMAIN beeDepth
          /\ beeDepth[shortest[i].parents[1]] = beeDepth[o] - 1
          /\ beeDepth[shortest[i].parents[2]] = beeDepth[o] - 1

\* C5 amended: both parents have a depth of at most one less than the
\* offspring, and one of them exactly one less.
C5_ParentsAtMostOneBelow ==
    spc = "done"
    => \A i \in 1..Len(shortest) : \A o \in DOMAIN shortest[i].children :
          /\ o \in DOMAIN beeDepth
          /\ shortest[i].parents[1] \in DOMAIN beeDepth
          /\ shortest[i].parents[2] \in DOMAIN beeDepth
          /\ beeDepth[shortest[i].parents[1]] <= beeDepth[o] - 1
          /\ beeDepth[shortest[i].parents[2]] <= beeDepth[o] - 1
          /\ \/ beeDepth[shortest[i].parents[1]] = beeDepth[o] - 1
             \/ beeDepth[shortest[i].parents[2]] = beeDepth[o] - 1

\* an offspring at depth 2 is listed under parents of depths 0 and 1
C5_Witness ==
    /\ spc = "done"
    /\ \E i \in 1..Len(shortest) : \E o \in DOMAIN shortest[i].children :
          /\ beeDepth[o] = 2
          /\ {beeDepth[shortest[i].parents[1]],
              beeDepth[shortest[i].parents[2]]} = {0, 1}

\* C6: an entity of depth >= 1 is an offspring key of exactly one returned
\* Group, with one relation (at most one requirement entry); a base entity
\* and an entity without a depth are an offspring key of none.
C6_OneProducingRelation ==
    spc = "done"
    => \A e \in Entities :
          IF e \in DOMAIN beeDepth /\ beeDepth[e] >= 1
          THEN /\ Cardinality(ListedIn(e)) = 1
               /\ \A i \in ListedIn(e) :
                     Len(shortest[i].children[e].requirements) <= 1
          ELSE ListedIn(e) = {}

\* a run with a listed offspring that had two candidates at its depth, a base
\* entity and an offspring left without a depth
C6_Witness ==
    /\ spc = "done"
    /\ \E e \in DOMAIN beeDepth :
          /\ beeDepth[e] >= 1
          /\ Cardinality(ListedIn(e)) = 1
          /\ \E i, j \in 1..Len(mutationGraph.cands[e]) :
                /\ i # j
                /\ \A n \in {i, j} :
                      /\ mutationGraph.cands[e][n].parents[1] \in DOMAIN beeDepth
                      /\ mutationGraph.cands[e][n].parents[2] \in DOMAIN beeDepth
                      /\ beeDepth[mutationGraph.cands[e][n].parents[1]] < beeDepth[e]
                      /\ beeDepth[mutationGraph.cands[e][n].parents[2]] < beeDepth[e]
    /\ InputBase # {}
    /\ BeesWithMutations(allMutations) \ DOMAIN beeDepth # {}

\* C7: the builder returns on every input, and an entity that is not
\* derivable from the base entities never gets a depth and is not listed.
C7_TerminatesPartial ==
    /\ <>(spc = "done")
    /\ [](\A e \in Entities \ Derivable :
             e \notin DOMAIN beeDepth /\ ListedIn(e) = {})

\* a finished run over an input with a self-parent relation whose offspring
\* stays without a depth while other offspring are listed
C7_Witness ==
    /\ spc = "done"
    /\ shortest # <<>>
    /\ \E e \in BeesWithMutations(allMutations) \ DOMAIN beeDepth :
          \E c \in InputCandidates(e) : e \in {c.parents[1], c.parents[2]}

----------------------------------------------------------------------------
(* Properties of consolidation: merge, duplicates, a second call, order    *)

\* the step is the reconciliation that ends a first call
Reconciles == pc = "loop" /\ pc' = "done"

ParentSet(m) == {m.parent1, m.parent2}

\* relation k of the run was neither unresolved nor a duplicate of an override
Kept(k) ==
    /\ Resolved(mutations[k])
    /\ BaseKey(mutations[k]) \notin ManualMutationSet(manualMutations)

\* relation k is the first kept relation of its parent pair and offspring, and
\* no override Group of that pair has the offspring
NewOffspring(k) ==
    /\ Kept(k)
    /\ \A h \in 1..Len(manualMutations) :
          UnorderedPair(manualMutations[h]) = ParentSet(mutations[k])
          => mutations[k].offspring \notin DOMAIN manualMutations[h].children
    /\ \A j \in 1..(k - 1) :
          ~(/\ Kept(j)
            /\ ParentSet(mutations[j]) = ParentSet(mutations[k])
            /\ mutations[j].offspring = mutations[k].offspring)

\* C11: when a call is reconciled, a kept relation that brought a new
\* offspring to the parent pair of an override Group is an offspring entry of
\* that override Group, at the Group's place in the list, with chance =
\* relation chance/100 and, when conditional, its requirement entry; the list
\* has as many Groups of that pair as the override set had.
C11_MergeIntoOverride ==
    [][Reconciles =>
          \A k \in 1..Len(mutations) : \A g \in 1..Len(manualMutations) :
             (/\ NewOffspring(k)
              /\ UnorderedPair(manualMutations[g]) = ParentSet(mutations[k]))
             => /\ UnorderedPair(output'[g]) = ParentSet(mutations[k])
                /\ mutations[k].offspring \in DOMAIN output'[g].children
                /\ output'[g].children[mutations[k].offspring].chance
                      = mutations[k].chance * 100
                /\ mutations[k].conditions # NoConditions
                   => \E r \in 1..Len(output'[g].children[
                                         mutations[k].offspring].requirements) :
                         output'[g].children[mutations[k].offspring]
                             .requirements[r]
                           = << <<"biome", mutations[k].conditions.biome>> >>
                /\ Cardinality({i \in 1..Len(output') :
                       UnorderedPair(output'[i]) = ParentSet(mutations[k])})
                   = Cardinality({h \in 1..Len(manualMutations) :
                       UnorderedPair(manualMutations[h]) = ParentSet(mutations[k])})]_vars

\* a finished call whose single override Group {x,y} -> z now also holds w,
\* brought by a conditional relation
C11_Witness ==
    /\ pc = "done"
    /\ Len(manualMutations) = 1
    /\ Len(output) = 1
    /\ output[1].parents = <<"f:x", "f:y">>
    /\ DOMAIN output[1].children = {"f:w", "f:z"}
    /\ output[1].children["f:w"].requirements = <<ReqBiome>>
    /\ \E k \in 1..Len(mutations) :
          /\ mutations[k].offspring = "f:w"
          /\ mutations[k].conditions = CondBiome
          /\ ParentSet(mutations[k]) = {"f:x", "f:y"}

\* the full identity of a relation: unordered parents, offspring, chance and
\* the conditions by name, an array value taken without its order
Identity(m) ==
    <<ParentSet(m), m.offspring, m.chance,
      [k \in DOMAIN m.conditions |->
          IF k \in ArrayConditions
          THEN {m.conditions[k][i] : i \in 1..Len(m.conditions[k])}
          ELSE m.conditions[k]]>>

\* relation m repeats the full identity of an earlier kept relation of the run
RepeatsEarlier(m) ==
    /\ Resolved(m)
    /\ \E j \in 1..Len(mutations) :
          Kept(j) /\ Identity(mutations[j]) = Identity(m)

\* C12: a relation that repeats the full identity of an earlier kept relation
\* changes neither the working Groups nor the seen identities, so the final
\* list is the one obtained without it; two unconditional {x,y} -> z at the
\* same chance and no override give the one Group {x,y} with the one entry z.
C12_DuplicateWithinRun ==
    /\ [][\A m \in Mutations :
             (Processes(m) /\ RepeatsEarlier(m))
             => /\ mutationGroups' = mutationGroups
                /\ seenMutationKeys' = seenMutationKeys
                /\ pc' = "loop"]_vars
    /\ []((/\ pc = "done"
           /\ manualMutations = <<>>
           /\ Len(mutations) = 2
           /\ mutations[1] = Mutation("f:x", "f:y", "f:z", 20, NoConditions)
           /\ mutations[2] \in {Mutation("f:x", "f:y", "f:z", 20, NoConditions),
                                Mutation("f:y", "f:x", "f:z", 20, NoConditions)})
          => output = << Group("f:x", "f:y", "f:z" :> Uncond(2000)) >>)

\* a finished call over two relations that differ only in the order of an
\* array value: one Group, one requirement entry
C12_Witness ==
    /\ pc = "done"
    /\ Len(mutations) = 2
    /\ Resolved(mutations[1])
    /\ mutations[1] # mutations[2]
    /\ Identity(mutations[1]) = Identity(mutations[2])
    /\ mutations[1].conditions # mutations[2].conditions
    /\ Len(output) = 1
    /\ Len(output[1].children[mutations[1].offspring].requirements) = 1

\* C13: a second call on the same registry, relations and override Groups
\* returns the final list and the skip diagnostics of the first call.
C13_Idempotence ==
    [][(pc = "done" /\ pc' # "done")
          => /\ pc' = "again"
             /\ output' = output
             /\ skippedMutations' = skippedMutations]_vars

\* lexicographic order of two sorted parent pairs, strict
PairBefore(a, b) ==
    \/ Rank(a[1]) < Rank(b[1])
    \/ a[1] = b[1] /\ Rank(a[2]) < Rank(b[2])

\* the Groups from position lo to hi are in ascending order of their parents
Ascending(list, lo, hi) ==
    \A i, j \in lo..hi : i < j => PairBefore(list[i].parents, list[j].parents)

\* C14 as stated: the override Groups come first, and the override segment
\* and the new segment are each in ascending order of the sorted parent pair.
C14_SegmentsAscending ==
    [][Reconciles =>
          /\ Len(output') >= Len(manualMutations)
          /\ Ascending(output', 1, Len(manualMutations))
          /\ Ascending(output', Len(manualMutations) + 1, Len(output'))]_vars

\* C14 amended: the override Groups come first in the order the override
\* input had them; the new Groups follow in ascending order.
C14_OverrideOrderKept ==
    [][Reconciles =>
          /\ Len(output') >= Len(manualMutations)
          /\ \A g \in 1..Len(manualMutations) :
                /\ UnorderedPair(output'[g]) = UnorderedPair(manualMutations[g])
                /\ KeyLeq(output'[g].parents[1], output'[g].parents[2])
          /\ \A i \in (Len(manualMutations) + 1)..Len(output') :
                /\ KeyLeq(output'[i].parents[1], output'[i].parents[2])
                /\ \A g \in 1..Len(manualMutations) :
                      UnorderedPair(output'[i]) # UnorderedPair(manualMutations[g])
          /\ Ascending(output', Len(manualMutations) + 1, Len(output'))]_vars

\* a finished call: the override Group {y,z} first, then the new Groups {w,x}
\* and {x,y}, whose relations came in the other order
C14_Witness ==
    /\ pc = "done"
    /\ Len(manualMutations) = 1
    /\ Len(output) = 3
    /\ output[1].parents = <<"f:y", "f:z">>
    /\ output[2].parents = <<"f:w", "f:x">>
    /\ output[3].parents = <<"f:x", "f:y">>
    /\ ParentSet(mutations[1]) = {"f:x", "f:y"}
    /\ ParentSet(mutations[2]) = {"f:w", "f:x"}

\* C20: a relation dropped as a duplicate within the run adds one entry to the
\* skip diagnostics.
C20_DuplicateDiagnostic ==
    [][\A m \in Mutations :
          (Processes(m) /\ RepeatsEarlier(m))
          => Len(skippedMutations') = Len(skippedMutations) + 1]_vars

----------------------------------------------------------------------------
(* Scenario of the shortest-path builder                                   *)

\* the input of the two-hop scenario: registry a, b, c, d and the two Groups
\* {a,b} -> c and {c,b} -> d, each with that one offspring, in either order
C18_Scenario ==
    /\ allBees = <<"a", "b", "c", "d">>
    /\ Len(allMutations) = 2
    /\ \E g, h \in 1..2 :
          /\ g # h
          /\ UnorderedPair(allMutations[g]) = {"a", "b"}
          /\ Len(allMutations[g].children) = 1
          /\ allMutations[g].children[1].offspring = "c"
          /\ UnorderedPair(allMutations[h]) = {"b", "c"}
          /\ Len(allMutations[h].children) = 1
          /\ allMutations[h].children[1].offspring = "d"

\* C18: in the two-hop scenario the depths are a = 0, b = 0, c = 1, d = 2 and
\* the returned list is the Group {a,b} with the single child c followed by
\* the Group {b,c} with the single child d.
C18_TwoHop ==
    (C18_Scenario /\ spc = "done")
    => /\ beeDepth = [e \in {"a", "b", "c", "d"} |->
                         IF e = "c" THEN 1 ELSE IF e = "d" THEN 2 ELSE 0]
       /\ Len(shortest) = 2
       /\ shortest[1].parents = <<"a", "b">>
       /\ DOMAIN shortest[1].children = {"c"}
       /\ shortest[2].parents = <<"b", "c">>
       /\ DOMAIN shortest[2].children = {"d"}

\* the builder has returned on the scenario given with d's Group first and
\* its parents as (c, b)
C18_Witness ==
    /\ C18_Scenario
    /\ spc = "done"
    /\ allMutations[1].parents = <<"c", "b">>
    /\ Len(shortest) = 2

----------------------------------------------------------------------------
(* Properties of the build pipeline                                        *)

\* the configured sources whose extractor returned
ParsedSources == {i \in 1..Len(modsConfig) : modsConfig[i] \in {"ok", "okThenThrows"}}

\* one of the four output files has been written
OutputWritten == \E i \in 1..Len(written) : \E f \in 1..4 : written[i] = OutputFiles[f]

\* C15: with a loadable override file, the records handed to consolidation
\* are those of exactly the sources whose extractor returned, in the
\* configured order, whatever the other sources did; when no source was
\* parsed the run ends with exit code 1 and no output file; and a run in
\* which some source was parsed ends with exit code 1 only if the override
\* file does not parse or consolidation throws.
C15_SourceFailuresNotFatal ==
    /\ []((bpc \notin {"parse", "idle"} /\ manualFile # "invalid")
          => /\ \A i \in 1..Len(modsConfig) :
                   i \in ParsedSources
                   <=> \E k \in 1..Len(intermediateData) : intermediateData[k] = i
             /\ \A k, l \in 1..Len(intermediateData) :
                   k < l => intermediateData[k] < intermediateData[l])
    /\ []((bpc # "idle" /\ ParsedSources = {}) => ~OutputWritten)
    /\ (bpc # "idle" /\ ParsedSources = {}) ~> (exitCode = 1)
    /\ []((exitCode = 1 /\ ParsedSources # {})
          => (manualFile = "invalid" \/ breedingThrows))

\* a run that ended with exit code 0 and the four files, over a missing
\* source, a throwing source and, after them, a parsed one
C15_Witness ==
    /\ bpc = "exited"
    /\ exitCode = 0
    /\ modsConfig = <<"missing", "throws", "ok">>
    /\ intermediateData = <<3>>
    /\ OutputWritten

\* C16: when the override file exists and does not parse, the run ends with
\* exit code 1 and none of the four output files is written.
C16_OverrideParseFatal ==
    /\ [](manualFile = "invalid" => ~OutputWritten)
    /\ (manualFile = "invalid") ~> (exitCode = 1 /\ bpc = "exited")

\* a run over parsed sources that ended with exit code 1 on the override file
C16_Witness ==
    /\ manualFile = "invalid"
    /\ bpc = "exited"
    /\ exitCode = 1
    /\ ParsedSources # {}
    /\ ~breedingThrows

----------------------------------------------------------------------------
(* Properties of the comb registry                                         *)

\* the items of the universe whose text contains "comb"
MarkedItems == {ItemComb, ItemModComb}

\* how many products of bee b have item K and chance c
Occurrences(b, K, c) ==
    Cardinality({p \in 1..Len(mergedBees[b].products) :
                    mergedBees[b].products[p] = Product(K, c)})

\* C17: a product key is in the comb output exactly when it contains "comb"
\* and is the item of some product of some entity; its producers list has one
\* {entity, chance} entry per such product and nothing else, in ascending
\* order of the entity key.
C17_CombRegistry ==
    combpc = "done"
    => /\ DOMAIN combsOutput
            = {K \in MarkedItems :
                  \E b \in 1..Len(mergedBees) :
                     \E p \in 1..Len(mergedBees[b].products) :
                        mergedBees[b].products[p].item = K}
       /\ \A K \in DOMAIN combsOutput :
             LET ps == combsOutput[K].producers
             IN  /\ \A b \in 1..Len(mergedBees) : \A c \in {10, 30} :
                       Cardinality({i \in 1..Len(ps) :
                           ps[i] = [bee |-> mergedBees[b].uid, chance |-> c]})
                       = Occurrences(b, K, c)
                 /\ \A i \in 1..Len(ps) :
                       \E b \in 1..Len(mergedBees) : ps[i].bee = mergedBees[b].uid
                 /\ \A i, j \in 1..Len(ps) :
                       i < j => Rank(ps[i].bee) <= Rank(ps[j].bee)

\* a built registry over bees inserted as f:y, f:x that both produce the same
\* comb, one of them twice, next to products without the marker
C17_Witness ==
    /\ combpc = "done"
    /\ Len(mergedBees) = 2
    /\ mergedBees[1].uid = "f:y"
    /\ ItemComb \in DOMAIN combsOutput
    /\ Len(combsOutput[ItemComb].producers) = 3
    /\ \E b \in 1..2 : \E p \in 1..Len(mergedBees[b].products) :
          mergedBees[b].products[p].item = ItemCapital

----------------------------------------------------------------------------
(* Properties of the species keys                                          *)

----------------------------------------------------------------------------
(* Properties of consolidation: chance overrides, totality, the frame      *)

\* the requirement entries of offspring o in the working Group of key k
WorkingRequirements(groups, k, o) ==
    IF k \in DOMAIN groups /\ o \in DOMAIN groups[k]
    THEN groups[k][o].requirements ELSE <<>>

\* C21: a relation without conditions adds no requirement entry to any
\* offspring of the working Groups, also when its chance/100 differs from the
\* default chance of its (parent pair, offspring).
C21_NoConditionsNoRequirement ==
    [][\A m \in Mutations :
          (Processes(m) /\ m.conditions = NoConditions)
          => \A k \in DOMAIN mutationGroups' :
                \A o \in DOMAIN mutationGroups'[k] :
                    mutationGroups'[k][o].requirements =
                        WorkingRequirements(mutationGroups, k, o)]_vars

\* the offspring entry of the working Groups, if there is one
HasChild(groups, k, o) == k \in DOMAIN groups /\ o \in DOMAIN groups[k]

\* the step pushed one requirement entry onto offspring o of the Group of k
Appended(k, o) ==
    /\ HasChild(mutationGroups', k, o)
    /\ Len(mutationGroups'[k][o].requirements) =
          Len(WorkingRequirements(mutationGroups, k, o)) + 1

\* C22: the default chance of an override offspring is the override's chance,
\* that of a new offspring is the chance/100 of the relation that created it,
\* and no later relation changes either; the requirement entry a conditional
\* relation appends carries a chance, its own chance/100, exactly when that
\* value differs from the default chance by more than 1e-4.
C22_ChanceOverride ==
    [][pc' = "loop" =>
          /\ \A k \in DOMAIN SeedGroups(manualMutations') :
                \A o \in DOMAIN SeedGroups(manualMutations')[k] :
                    mutationGroups'[k][o].chance =
                        SeedGroups(manualMutations')[k][o].chance
          /\ \A m \in Mutations :
                (Processes(m) /\ Resolved(m))
                => LET k   == SortPair(m.parent1, m.parent2)
                       o   == m.offspring
                       def == IF HasChild(mutationGroups, k, o)
                              THEN mutationGroups[k][o].chance
                              ELSE m.chance * 100
                       new == mutationGroups'[k][o].requirements
                   IN  /\ HasChild(mutationGroups', k, o)
                          => mutationGroups'[k][o].chance = def
                       /\ (m.conditions # NoConditions /\ Appended(k, o))
                          => /\ HasField(new[Len(new)], "chance")
                                <=> Abs(m.chance * 100 - def) > ChanceTolerance
                             /\ HasField(new[Len(new)], "chance")
                                => Field(new[Len(new)], "chance") = m.chance * 100]_vars

\* two conditional relations were merged into an override offspring of chance
\* 0.2001: the one at 0.20 without a chance of its own, the one at 0.05 with it
C22_Witness ==
    /\ pc = "loop"
    /\ manualMutations = << Group("f:x", "f:y", "f:z" :> WithReq(2001, <<>>)) >>
    /\ mutations = << Mutation("f:x", "f:y", "f:z", 20, CondBiome),
                      Mutation("f:y", "f:x", "f:z", 5, CondBiome) >>
    /\ mutationGroups[<<"f:x", "f:y">>]["f:z"] =
          WithReq(2001, <<ReqBiome, ReqBiomeChance(500)>>)

----------------------------------------------------------------------------
(* Properties of the flattening of the final list into candidates          *)

\* offspring entry o of a Group of the final list, as the builder reads it
\* from mutations.jsonc
EntryOf(group, o) ==
    [offspring    |-> o,
     chance       |-> group.children[o].chance,
     hasReq       |-> group.children[o].hasReq,
     requirements |-> group.children[o].requirements]

\* a relation without conditions was merged for offspring o of the new Group
\* at position g of the final list
HasUnconditionalDefault(g, o) ==
    /\ g > Len(manualMutations)
    /\ \E i \in 1..Len(mutations) :
          /\ Resolved(mutations[i])
          /\ mutations[i].conditions = NoConditions
          /\ ParentSet(mutations[i]) = UnorderedPair(output[g])
          /\ mutations[i].offspring = o

\* C23: an offspring entry of the final list with n >= 1 requirement entries
\* gives one conditional candidate per requirement entry, with the entry's own
\* chance or else the offspring's, plus one unconditional candidate with the
\* offspring's chance when a relation without conditions stands behind the
\* offspring as well; an entry without requirement entries gives exactly one
\* unconditional candidate.
C23_CandidateFlattening ==
    pc = "done"
    => \A g \in 1..Len(output) : \A o \in DOMAIN output[g].children :
          LET child == EntryOf(output[g], o)
              n     == Len(child.requirements)
              cands == ChildCandidates(output[g].parents, child)
              cond  == SelectSeq(cands, LAMBDA c : c.isConditional)
              plain == SelectSeq(cands, LAMBDA c : ~c.isConditional)
          IN  IF n >= 1
              THEN /\ Len(cond) = n
                   /\ \A r \in 1..n :
                         /\ cond[r].requirements = child.requirements[r]
                         /\ cond[r].chance =
                               IF HasField(child.requirements[r], "chance")
                               THEN Field(child.requirements[r], "chance")
                               ELSE child.chance
                   /\ Len(plain) = IF HasUnconditionalDefault(g, o) THEN 1 ELSE 0
                   /\ \A c \in Range(plain) : c.chance = child.chance
              ELSE /\ Len(cond) = 0
                   /\ Len(plain) = 1
                   /\ plain[1].chance = child.chance

----------------------------------------------------------------------------
(* Properties of the relaxation loop and of the second pass                *)

NoRepeats(q) == \A i, j \in 1..Len(q) : i # j => q[i] # q[j]

\* C24: an entity that has a depth keeps it in every later step of the loop;
\* an entity enters the queue in the step that gives it its depth, once, and
\* never again; a base entity has depth 0 from the start to the end.
C24_FirstAssignmentWins ==
    /\ [](spc # "idle"
          => /\ \A b \in InputBase : b \in DOMAIN beeDepth /\ beeDepth[b] = 0
             /\ NoRepeats(queue)
             /\ Range(queue) \subseteq DOMAIN beeDepth)
    /\ [][/\ \A e \in DOMAIN beeDepth :
                e \in DOMAIN beeDepth' /\ beeDepth'[e] = beeDepth[e]
          /\ (spc = "bfs" /\ queue # <<>>)
             => \E added \in SeqsUpTo((DOMAIN beeDepth') \ DOMAIN beeDepth,
                                      Cardinality(Entities)) :
                   /\ NoRepeats(added)
                   /\ Range(added) = (DOMAIN beeDepth') \ DOMAIN beeDepth
                   /\ queue' = Tail(queue) \o added]_vars

\* a finished run in which an entity kept a depth of 2 or more although one of
\* its candidates, with both parents assigned, gives a smaller one
C24_Witness ==
    /\ spc = "done"
    /\ InputBase # {}
    /\ \E e \in DOMAIN beeDepth :
          /\ beeDepth[e] >= 2
          /\ \E c \in InputCandidates(e) :
                /\ c.parents[1] \in DOMAIN beeDepth
                /\ c.parents[2] \in DOMAIN beeDepth
                /\ beeDepth[c.parents[1]] + 1 < beeDepth[e]
                /\ beeDepth[c.parents[2]] + 1 < beeDepth[e]

\* the candidates of offspring e in the input's (Group, offspring,
\* requirement) order
OrderedCandidates(e) ==
    SelectSeq(AllCandidates(allMutations, 1), LAMBDA c : c.offspring = e)

\* the positions of the candidates of e whose parents both have a depth, the
\* larger of the two being one below the depth of e
AtAssignedDepth(e) ==
    {j \in 1..Len(OrderedCandidates(e)) :
        LET c == OrderedCandidates(e)[j]
        IN  /\ c.parents[1] \in DOMAIN beeDepth
            /\ c.parents[2] \in DOMAIN beeDepth
            /\ (IF beeDepth[c.parents[1]] >= beeDepth[c.parents[2]]
                THEN beeDepth[c.parents[1]] ELSE beeDepth[c.parents[2]]) + 1
               = beeDepth[e]}

\* C25: every offspring with a depth has a candidate at its depth, and the
\* returned list holds it once, in the Group of the parents of the first such
\* candidate, with that candidate's chance and with the candidate's
\* requirement entry as its only requirement exactly when the candidate is
\* conditional.
C25_FirstAtDepth ==
    spc = "done"
    => \A e \in BeesWithMutations(allMutations) \cap DOMAIN beeDepth :
          /\ AtAssignedDepth(e) # {}
          /\ LET first == CHOOSE j \in AtAssignedDepth(e) :
                             \A k \in AtAssignedDepth(e) : j <= k
                 c     == OrderedCandidates(e)[first]
             IN  /\ Cardinality(ListedIn(e)) = 1
                 /\ \A i \in ListedIn(e) :
                       /\ UnorderedPair(shortest[i]) = {c.parents[1], c.parents[2]}
                       /\ shortest[i].children[e].chance = c.chance
                       /\ shortest[i].children[e].hasReq = c.isConditional
                       /\ shortest[i].children[e].requirements =
                             IF c.isConditional THEN <<c.requirements>> ELSE <<>>

\* a finished run in which the second pass went past a candidate whose
\* parents both have a depth, took a later one at the offspring's depth, and
\* listed another offspring with the requirement of a conditional candidate
C25_Witness ==
    /\ spc = "done"
    /\ \E e \in BeesWithMutations(allMutations) \cap DOMAIN beeDepth :
          \E j \in 1..Len(OrderedCandidates(e)) :
              /\ OrderedCandidates(e)[j].parents[1] \in DOMAIN beeDepth
              /\ OrderedCandidates(e)[j].parents[2] \in DOMAIN beeDepth
              /\ \A k \in AtAssignedDepth(e) : j < k
              /\ ListedIn(e) # {}
    /\ \E e \in BeesWithMutations(allMutations) \cap DOMAIN beeDepth :
          \E i \in ListedIn(e) : Len(shortest[i].children[e].requirements) = 1

----------------------------------------------------------------------------
(* Properties of consolidation: totality and the frame                     *)

\* C26: over resolved relations the call does not throw, whatever the shape
\* of the override offspring entries (with, without or with an empty
\* requirements list).
C26_ConsolidationTotal ==
    (\A i \in 1..Len(mutations) : Resolved(mutations[i])) => pc # "threw"

\* the requirement entries old, unchanged and in their order, open the list new
StartsWithEntries(new, old) ==
    Len(new) >= Len(old) /\ SubSeq(new, 1, Len(old)) = old

LoopEnded == spc = "done" \/ (spc = "bfs" /\ queue = <<>>)

\* C28: when the relaxation loop has ended no offspring without a depth has a
\* candidate whose parents both have one, every entity derivable from the base
\* entities has a depth, and every derivable offspring is an offspring key of
\* the returned list.
C28_ReachabilityClosure ==
    /\ LoopEnded
       => /\ \A e \in BeesWithMutations(allMutations) \ DOMAIN beeDepth :
                \A c \in InputCandidates(e) :
                    c.parents[1] \notin DOMAIN beeDepth
                    \/ c.parents[2] \notin DOMAIN beeDepth
          /\ Derivable \subseteq DOMAIN beeDepth
    /\ spc = "done"
       => \A e \in Derivable \cap BeesWithMutations(allMutations) :
             ListedIn(e) # {}

\* a returned list with an offspring two relations away from the base
\* entities and an offspring whose first candidate has a parent without a
\* depth
C28_Witness ==
    /\ spc = "done"
    /\ \E e \in Derivable : beeDepth[e] >= 2 /\ ListedIn(e) # {}
    /\ \E e \in BeesWithMutations(allMutations) \cap DOMAIN beeDepth :
          \E p \in {OrderedCandidates(e)[1].parents[1],
                    OrderedCandidates(e)[1].parents[2]} : p \notin DOMAIN beeDepth

RECURSIVE TracedBack(_)
\* the least set holding S and every offspring of the returned list whose
\* Group has both parents in the set
TracedBack(S) ==
    LET new == {o \in Entities :
                   \E i \in ListedIn(o) :
                       shortest[i].parents[1] \in S /\ shortest[i].parents[2] \in S}
    IN  IF new \subseteq S THEN S ELSE TracedBack(S \cup new)

\* C29: in the returned list both parents of every offspring have a depth
\* below the offspring's, and every offspring is traced back to the base
\* entities through relations of the list alone.
C29_WellFounded ==
    spc = "done"
    => \A i \in 1..Len(shortest) : \A o \in DOMAIN shortest[i].children :
          /\ o \in DOMAIN beeDepth
          /\ \A p \in {shortest[i].parents[1], shortest[i].parents[2]} :
                p \in DOMAIN beeDepth /\ beeDepth[p] < beeDepth[o]
          /\ o \in TracedBack(InputBase)

\* a returned list with an offspring one of whose parents is itself an
\* offspring of the list, the other being a base entity
C29_Witness ==
    /\ spc = "done"
    /\ \E i \in 1..Len(shortest) : \E o \in DOMAIN shortest[i].children :
          /\ \E p \in {shortest[i].parents[1], shortest[i].parents[2]} :
                ListedIn(p) # {}
          /\ \E p \in {shortest[i].parents[1], shortest[i].parents[2]} :
                p \in InputBase

----------------------------------------------------------------------------
(* Properties of the build pipeline: the output directory after a failure  *)

\* C30: a run that ends with a non-zero exit code has written none of
\* bees.jsonc, mutations.jsonc, combs.jsonc and shortest_mutations.jsonc.
C30_AllOrNothing ==
    (bpc = "exited" /\ exitCode # 0)
    => \A i \in 1..Len(written) : \A f \in 1..Len(OutputFiles) :
          written[i] # OutputFiles[f]

====
